---- MODULE Spec2Model ----
(***************************************************************************)
(* Model of ocr_gui.py: the OCR label pipeline (OCRProcessor), its worker  *)
(* thread (ProcessorThread) and the window's handlers (MainWindow).        *)
(*                                                                         *)
(* Text is modelled as a sequence of one-character strings, so that        *)
(* str.strip, str.upper, str.lstrip, str.replace, re.findall and the csv   *)
(* writer and reader are computed character by character as Python does.   *)
(***************************************************************************)
EXTENDS Integers, Sequences, FiniteSets, TLC

VARIABLES
    \* --- OCRProcessor.process_image, variant expansion (lines 293-315)
    part_number,        \* the part number being expanded
    pns_to_add,         \* its variant list
    \* --- OCRProcessor.extract_part_numbers / record building (lines 173-331)
    brand_codes,        \* OCR lines of the brand-code region
    brand_part_text,    \* merged text of the brand-code-and-part region
    part_number_pairs,  \* what extract_part_numbers returned
    new_records,        \* the batch handed to save_to_csv
    stage,              \* position of a function-level run
    store_log,          \* the store operations completed, in order
    ocr_data,           \* result['data'] of an OCR response (line 146)
    main_brand_code,    \* the single-value field taken from it (line 253)
    \* --- OCRProcessor (lines 35-48)
    xml_path,           \* the file at self.xml_path
    regions,            \* self.regions: the region names parsed from the XML
    brand_mapping,      \* self.brand_mapping
    \* --- the file system
    input_dir,          \* refToPN: file name -> file (0: no such file)
    output_dir,         \* refToPartnum-OK: archived name -> file
    output_csv,         \* ocr_results.csv: NoFile, or its characters
    clock,              \* datetime.now(), in seconds
    next_file,          \* the next file an external writer creates
    \* --- MainWindow and its worker threads (lines 389-756)
    threads,            \* every ProcessorThread created, in order
    process_thread,     \* self.process_thread: index in threads, 0 for None
    watching,           \* self.watching
    timer_active,       \* self.process_timer.isActive()
    dir_signal,         \* a directoryChanged signal waiting for delivery
    finished_signals,   \* finished_all signals waiting for delivery
    process_btn,        \* self.process_btn.isEnabled()
    log_text,           \* self.log_text: the last line that
                        \* process_pending_images appended to it
    dedup               \* deduplicate_csv in progress on the GUI thread

ocrvars == <<ocr_data, main_brand_code>>

fvars == <<part_number, pns_to_add, brand_codes, brand_part_text,
           part_number_pairs, new_records, stage, store_log, ocrvars>>

cfgvars == <<xml_path, regions, brand_mapping>>

fsvars == <<input_dir, output_dir, clock, next_file>>

guivars == <<threads, process_thread, watching, timer_active, dir_signal,
             finished_signals, process_btn, log_text>>

vars == <<fvars, cfgvars, fsvars, output_csv, guivars, dedup>>

None == "None"

\* output_csv_path.exists() is false (line 352); a file is the sequence of
\* its characters, and this is no sequence of characters
NoFile == <<"no file">>

(***************************************************************************)
(* Characters and the str methods the program uses.                        *)
(***************************************************************************)
Lowers == <<"a","b","c","d","e","f","g","h","i","j","k","l","m",
            "n","o","p","q","r","s","t","u","v","w","x","y","z">>
Uppers == <<"A","B","C","D","E","F","G","H","I","J","K","L","M",
            "N","O","P","Q","R","S","T","U","V","W","X","Y","Z">>
Digits == {"0","1","2","3","4","5","6","7","8","9"}

Range(s) == {s[i] : i \in DOMAIN s}

IsLetter(c) == c \in Range(Lowers) \cup Range(Uppers)

\* [a-zA-Z0-9] of the pattern at line 209
IsAlnum(c) == IsLetter(c) \/ c \in Digits

\* [a-zA-Z0-9\-\.\/_] of the pattern at line 209
IsPnChar(c) == IsAlnum(c) \/ c \in {"-", ".", "/", "_"}

\* \w of Python's re (for \b)
IsWord(c) == IsAlnum(c) \/ c = "_"

\* whitespace of str.strip, str.split and \s
IsSpace(c) == c \in {" ", "\n", "\t", "\r"}

\* str.upper on one character
UpperChar(c) ==
    IF c \in Range(Lowers)
    THEN Uppers[CHOOSE i \in DOMAIN Lowers : Lowers[i] = c]
    ELSE c

\* str.upper
Upper(s) == [i \in DOMAIN s |-> UpperChar(s[i])]

\* str.lstrip() / str.rstrip() / str.strip() on whitespace
RECURSIVE LStripSpace(_)
LStripSpace(s) ==
    IF s # <<>> /\ IsSpace(Head(s)) THEN LStripSpace(Tail(s)) ELSE s

RECURSIVE RStripSpace(_)
RStripSpace(s) ==
    IF s # <<>> /\ IsSpace(s[Len(s)])
    THEN RStripSpace(SubSeq(s, 1, Len(s) - 1))
    ELSE s

Strip(s) == RStripSpace(LStripSpace(s))

\* str.lstrip('0')
RECURSIVE LStripZero(_)
LStripZero(s) ==
    IF s # <<>> /\ Head(s) = "0" THEN LStripZero(Tail(s)) ELSE s

\* str.startswith('0')
StartsWithZero(s) == s # <<>> /\ Head(s) = "0"

\* str.split(): the maximal runs of non-whitespace characters
RECURSIVE SplitWs(_, _, _)
SplitWs(s, word, words) ==
    IF s = <<>>
    THEN IF word = <<>> THEN words ELSE Append(words, word)
    ELSE IF IsSpace(Head(s))
         THEN SplitWs(Tail(s), <<>>,
                      IF word = <<>> THEN words ELSE Append(words, word))
         ELSE SplitWs(Tail(s), Append(word, Head(s)), words)

\* ' '.join(words)
RECURSIVE JoinSpace(_)
JoinSpace(words) ==
    IF words = <<>> THEN <<>>
    ELSE IF Len(words) = 1 THEN words[1]
    ELSE words[1] \o <<" ">> \o JoinSpace(Tail(words))

(***************************************************************************)
(* Variant expansion: process_image, lines 293-315.                        *)
(***************************************************************************)
special_chars == {"-", ".", "/", "_"}

\* cleaned_pn: every special character replaced by '' (lines 305-307)
RemoveSpecial(pn) == SelectSeq(pn, LAMBDA c : c \notin special_chars)

\* What the rule would be if it asked for a digit after the leading zeros.
ZeroVariantDigitOnly(pn) ==
    IF StartsWithZero(pn)
    THEN LET stripped_pn == LStripZero(pn)
         IN  IF stripped_pn # <<>> /\ stripped_pn # pn
                /\ Head(stripped_pn) \in Digits
             THEN <<stripped_pn>> ELSE <<>>
    ELSE <<>>

\* lines 296-300: the leading-zero variant of the original
ZeroVariant(pn) ==
    IF StartsWithZero(pn)
    THEN LET stripped_pn == LStripZero(pn)
         IN  IF stripped_pn # <<>> /\ stripped_pn # pn
             THEN <<stripped_pn>> ELSE <<>>
    ELSE <<>>

\* A slip in lines 302-315: the guard "any(char in part_number ...)" and the
\* test "cleaned_pn != part_number" left out.
SpecialVariantsUnguarded(pn) ==
    LET cleaned_pn == RemoveSpecial(pn)
    IN  IF cleaned_pn # <<>>
        THEN <<cleaned_pn>> \o
             (IF StartsWithZero(cleaned_pn)
              THEN LET stripped_cleaned == LStripZero(cleaned_pn)
                   IN  IF stripped_cleaned # <<>>
                       THEN <<stripped_cleaned>> ELSE <<>>
              ELSE <<>>)
        ELSE <<>>

\* lines 302-315: the punctuation-removed variant and its leading-zero variant
SpecialVariants(pn) ==
    IF \E i \in DOMAIN pn : pn[i] \in special_chars
    THEN LET cleaned_pn == RemoveSpecial(pn)
         IN  IF cleaned_pn # <<>> /\ cleaned_pn # pn
             THEN <<cleaned_pn>> \o
                  (IF StartsWithZero(cleaned_pn)
                   THEN LET stripped_cleaned == LStripZero(cleaned_pn)
                        IN  IF stripped_cleaned # <<>>
                               /\ stripped_cleaned # cleaned_pn
                            THEN <<stripped_cleaned>> ELSE <<>>
                   ELSE <<>>)
             ELSE <<>>
    ELSE <<>>

\* lines 294-315: pns_to_add for one part number
Expand(pn) == <<pn>> \o ZeroVariant(pn) \o SpecialVariants(pn)

(***************************************************************************)
(* extract_part_numbers, lines 173-221.                                    *)
(***************************************************************************)
\* lines 186-192 without the "not in seen" test
RECURSIVE UniqueBrandCodesNoDedup(_, _)
UniqueBrandCodesNoDedup(bcs, acc) ==
    IF bcs = <<>> THEN acc
    ELSE LET bc_upper == Upper(Strip(Head(bcs)))
         IN  UniqueBrandCodesNoDedup(Tail(bcs),
                 IF bc_upper # <<>> THEN Append(acc, bc_upper) ELSE acc)

\* lines 186-192: strip, upper, drop empties, dedup keeping first-seen order
RECURSIVE UniqueBrandCodes(_, _)
UniqueBrandCodes(bcs, acc) ==
    IF bcs = <<>> THEN acc
    ELSE LET bc_upper == Upper(Strip(Head(bcs)))
         IN  UniqueBrandCodes(Tail(bcs),
                 IF bc_upper # <<>> /\ bc_upper \notin Range(acc)
                 THEN Append(acc, bc_upper) ELSE acc)

\* lines 198-200: text.strip(), then ' '.join(text.split())
NormalizeText(t) == JoinSpace(SplitWs(Strip(t), <<>>, <<>>))

\* \b at position i (between text[i-1] and text[i])
WordAt(text, k) == k \in DOMAIN text /\ IsWord(text[k])
Boundary(text, i) == WordAt(text, i - 1) # WordAt(text, i)

\* the length of the run of part-number characters from position i on
RECURSIVE PnRunLen(_, _)
PnRunLen(text, i) ==
    IF i \in DOMAIN text /\ IsPnChar(text[i])
    THEN 1 + PnRunLen(text, i + 1) ELSE 0

\* the length of the run of whitespace from position i on
RECURSIVE SpaceRunLen(_, _)
SpaceRunLen(text, i) ==
    IF i \in DOMAIN text /\ IsSpace(text[i])
    THEN 1 + SpaceRunLen(text, i + 1) ELSE 0

\* One attempt of the pattern of line 209 at position i, re.IGNORECASE:
\*   \b <brand_code> \s* ( [a-zA-Z0-9] [a-zA-Z0-9\-\.\/_]+ )
\* The result is <<start, end>> of the group (end exclusive), or <<0, 0>>.
\* \s* is greedy and backtracks: the longest run of whitespace after which
\* the group matches is taken.
MatchAt(brand_code, text, i) ==
    LET n == Len(brand_code)
        j == i + n
        literal == /\ Boundary(text, i)
                   /\ j - 1 <= Len(text)
                   /\ \A k \in 1..n :
                          UpperChar(text[i + k - 1]) = UpperChar(brand_code[k])
        GroupAt(p) == /\ p \in DOMAIN text
                      /\ IsAlnum(text[p])
                      /\ PnRunLen(text, p + 1) >= 1
        ks == IF literal
              THEN {k \in 0..SpaceRunLen(text, j) : GroupAt(j + k)}
              ELSE {}
    IN  IF ks = {} THEN <<0, 0>>
        ELSE LET k == CHOOSE x \in ks : \A y \in ks : y <= x
                 p == j + k
             IN  <<p, p + 1 + PnRunLen(text, p + 1)>>

\* re.findall(pattern, text, re.IGNORECASE): the groups of the
\* non-overlapping matches, leftmost first
RECURSIVE FindAll(_, _, _)
FindAll(brand_code, text, i) ==
    IF i > Len(text) THEN <<>>
    ELSE LET m == MatchAt(brand_code, text, i)
         IN  IF m = <<0, 0>>
             THEN FindAll(brand_code, text, i + 1)
             ELSE <<SubSeq(text, m[1], m[2] - 1)>>
                  \o FindAll(brand_code, text, m[2])

\* lines 212-219 without the "not in unique_brand_codes" test
RECURSIVE KeepMatchesNoBrandTest(_, _, _)
KeepMatchesNoBrandTest(brand_code, matches, unique_brand_codes) ==
    IF matches = <<>> THEN <<>>
    ELSE LET pn == Upper(Strip(Head(matches)))
             rest == KeepMatchesNoBrandTest(brand_code, Tail(matches),
                                            unique_brand_codes)
         IN  IF pn # <<>> /\ Len(pn) >= 4
             THEN <<<<brand_code, pn>>>> \o rest
             ELSE rest

\* lines 212-219: upper-case each match, drop brand codes and short ones
RECURSIVE KeepMatches(_, _, _)
KeepMatches(brand_code, matches, unique_brand_codes) ==
    IF matches = <<>> THEN <<>>
    ELSE LET pn == Upper(Strip(Head(matches)))
             rest == KeepMatches(brand_code, Tail(matches), unique_brand_codes)
         IN  IF pn # <<>> /\ pn \notin Range(unique_brand_codes)
                /\ Len(pn) >= 4
             THEN <<<<brand_code, pn>>>> \o rest
             ELSE rest

\* lines 206-219: the loop over the unique brand codes
RECURSIVE ScanBrands(_, _, _)
ScanBrands(todo, text, unique_brand_codes) ==
    IF todo = <<>> THEN <<>>
    ELSE KeepMatches(Head(todo), FindAll(Head(todo), text, 1),
                     unique_brand_codes)
         \o ScanBrands(Tail(todo), text, unique_brand_codes)

\* extract_part_numbers(brand_codes, brand_part_text)
extract_part_numbers(bcs, text_in) ==
    LET unique_brand_codes == UniqueBrandCodes(bcs, <<>>)
    IN  IF unique_brand_codes = <<>> \/ text_in = <<>>
        THEN <<>>
        ELSE ScanBrands(unique_brand_codes, NormalizeText(text_in),
                        unique_brand_codes)

(***************************************************************************)
(* Record building: process_image, lines 281-331.                          *)
(***************************************************************************)
\* line 288 with a default of '' in place of the None test of lines 289-291
LookupBrandNoFallback(mapping, brand_code) ==
    IF brand_code \in DOMAIN mapping THEN mapping[brand_code] ELSE <<>>

\* lines 288-291: brand_mapping.get(brand_code), the brand code itself if None
LookupBrand(mapping, brand_code) ==
    IF brand_code \in DOMAIN mapping THEN mapping[brand_code] ELSE brand_code

\* the first 6 fields of a 7-field record
Key6(row) == SubSeq(row, 1, 6)

\* lines 329-331 without the "not in seen_in_image" test
AddRecordNoDedup(acc, record, source_file) ==
    [records |-> Append(acc.records, record \o <<source_file>>),
     seen    |-> acc.seen \cup {record}]

\* lines 329-331: append the record unless its 6-field key was seen
AddRecord(acc, record, source_file) ==
    IF record \notin acc.seen
    THEN [records |-> Append(acc.records, record \o <<source_file>>),
          seen    |-> acc.seen \cup {record}]
    ELSE acc

\* lines 318-331: the loop over the variants of one pair
RECURSIVE AddVariants(_, _, _, _)
AddVariants(acc, prefix, pns, source_file) ==
    IF pns = <<>> THEN acc
    ELSE AddVariants(AddRecord(acc, prefix \o <<Head(pns)>>, source_file),
                     prefix, Tail(pns), source_file)

\* lines 286-331: the loop over the extracted pairs
RECURSIVE AddPairs(_, _, _, _, _)
AddPairs(acc, fields, pairs, mapping, source_file) ==
    IF pairs = <<>> THEN acc
    ELSE LET brand_code == Head(pairs)[1]
             pn == Head(pairs)[2]
             universal_brand == LookupBrand(mapping, brand_code)
             prefix == fields \o <<universal_brand, brand_code>>
         IN  AddPairs(AddVariants(acc, prefix, Expand(pn), source_file),
                      fields, Tail(pairs), mapping, source_file)

\* lines 281-331: new_records; fields is
\* <<main_brand_code, convert_code, english_name>>
BuildRecords(fields, pairs, mapping, source_file) ==
    AddPairs([records |-> <<>>, seen |-> {}], fields, pairs, mapping,
             source_file).records

(***************************************************************************)
(* The csv module as save_to_csv and deduplicate_csv use it: the default   *)
(* excel dialect (delimiter ',', quotechar '"', doublequote, minimal       *)
(* quoting, lineterminator '\r\n').  A file is its sequence of characters. *)
(***************************************************************************)
CR == "\r"
LF == "\n"
QUOTE == "\""
COMMA == ","

\* csv.writer: a field is quoted when it holds the delimiter, the quote
\* character or a line-break character; quotes inside are doubled
NeedsQuote(f) == \E i \in DOMAIN f : f[i] \in {COMMA, QUOTE, CR, LF}

RECURSIVE DoubleQuotes(_)
DoubleQuotes(f) ==
    IF f = <<>> THEN <<>>
    ELSE (IF Head(f) = QUOTE THEN <<QUOTE, QUOTE>> ELSE <<Head(f)>>)
         \o DoubleQuotes(Tail(f))

WriteField(f) ==
    IF NeedsQuote(f) THEN <<QUOTE>> \o DoubleQuotes(f) \o <<QUOTE>> ELSE f

RECURSIVE JoinFields(_)
JoinFields(row) ==
    IF row = <<>> THEN <<>>
    ELSE IF Len(row) = 1 THEN WriteField(row[1])
    ELSE WriteField(row[1]) \o <<COMMA>> \o JoinFields(Tail(row))

\* writer.writerow(row): the characters written
WriteRow(row) == JoinFields(row) \o <<CR, LF>>

\* writer.writerows(rows)
RECURSIVE WriteRows(_)
WriteRows(rows) ==
    IF rows = <<>> THEN <<>> ELSE WriteRow(Head(rows)) \o WriteRows(Tail(rows))

\* csv.reader: one step of the parser of _csv.c (parse_process_char) on
\* character c.  p.st is the parser's state (START_RECORD, START_FIELD,
\* IN_FIELD, IN_QUOTED_FIELD, QUOTE_IN_QUOTED_FIELD, EAT_CRNL), p.field the
\* field being read, p.row the fields read so far.
SaveField(p, st) == [st |-> st, field |-> <<>>, row |-> Append(p.row, p.field)]
AddChar(p, st, c) == [st |-> st, field |-> Append(p.field, c), row |-> p.row]

ParserStep(p, c) ==
    CASE p.st = "START_RECORD" /\ c \in {CR, LF} ->
             [p EXCEPT !.st = "EAT_CRNL"]
      [] p.st \in {"START_RECORD", "START_FIELD"} ->
             IF c \in {CR, LF} THEN SaveField(p, "EAT_CRNL")
             ELSE IF c = QUOTE THEN [p EXCEPT !.st = "IN_QUOTED_FIELD"]
             ELSE IF c = COMMA THEN SaveField(p, "START_FIELD")
             ELSE AddChar(p, "IN_FIELD", c)
      [] p.st = "IN_FIELD" ->
             IF c \in {CR, LF} THEN SaveField(p, "EAT_CRNL")
             ELSE IF c = COMMA THEN SaveField(p, "START_FIELD")
             ELSE AddChar(p, "IN_FIELD", c)
      [] p.st = "IN_QUOTED_FIELD" ->
             IF c = QUOTE THEN [p EXCEPT !.st = "QUOTE_IN_QUOTED_FIELD"]
             ELSE AddChar(p, "IN_QUOTED_FIELD", c)
      [] p.st = "QUOTE_IN_QUOTED_FIELD" ->
             IF c = QUOTE THEN AddChar(p, "IN_QUOTED_FIELD", c)
             ELSE IF c = COMMA THEN SaveField(p, "START_FIELD")
             ELSE IF c \in {CR, LF} THEN SaveField(p, "EAT_CRNL")
             ELSE AddChar(p, "IN_FIELD", c)

\* next(reader): the record starting at position i of file f and the
\* position after it.  The file is opened with newline='', so the line of
\* an unquoted line break ends after "\r\n", "\r" or "\n"; at the end of
\* the file a record in progress is returned as it stands.
RECURSIVE ReadRecord(_, _, _)
ReadRecord(f, i, p) ==
    IF p.st = "EAT_CRNL"
    THEN [row  |-> p.row,
          next |-> IF i <= Len(f) /\ f[i] = LF /\ f[i - 1] = CR
                   THEN i + 1 ELSE i]
    ELSE IF i > Len(f)
    THEN [row |-> Append(p.row, p.field), next |-> i]
    ELSE ReadRecord(f, i + 1, ParserStep(p, f[i]))

\* list(csv.reader(f)) from position i on
RECURSIVE ReadFrom(_, _)
ReadFrom(f, i) ==
    IF i > Len(f) THEN <<>>
    ELSE LET r == ReadRecord(f, i, [st |-> "START_RECORD", field |-> <<>>,
                                    row |-> <<>>])
         IN  <<r.row>> \o ReadFrom(f, r.next)

\* list(csv.reader(f))
ReadRows(f) == ReadFrom(f, 1)

(***************************************************************************)
(* Function-level runs: the inputs are drawn from bounded sets and the     *)
(* functions of OCRProcessor are applied to them.                          *)
(***************************************************************************)
\* the strings over alphabet of length at most n
RECURSIVE StringsUpTo(_, _)
StringsUpTo(alphabet, n) ==
    IF n = 0 THEN {<<>>}
    ELSE LET shorter == StringsUpTo(alphabet, n - 1)
         IN  shorter \cup {Append(w, c) : w \in shorter, c \in alphabet}

\* the concatenations of at most n tokens
RECURSIVE TokenStrings(_, _)
TokenStrings(tokens, n) ==
    IF n = 0 THEN {<<>>}
    ELSE LET shorter == TokenStrings(tokens, n - 1)
         IN  shorter \cup {w \o t : w \in shorter, t \in tokens}

MaxPnLen == 5
PnAlphabet == {"0", "1", "A", "-", "."}

\* the part numbers expanded: every string over PnAlphabet up to MaxPnLen,
\* and the examples of the documentation
PartNumbers ==
    StringsUpTo(PnAlphabet, MaxPnLen)
    \cup {<<"0","A","B","-","1","2">>, <<"0","0","7","7","8","8">>,
          <<"A","B","-","1","2",".","3","4">>, <<"0","0","9","9","-","A">>}

MaxTokens == 3
TextTokens == {<<"Z">>, <<" ">>, <<"\n">>, <<"A","B","1","2">>,
               <<"a","b","-","1">>,
               <<"z","0","0","1","2"," ">>,
               <<"Z"," ","0","0","-","1","2"," ">>}

MaxBrandLines == 2
BrandLines == {<<"Z">>, <<"z"," ">>, <<"A","B","1","2">>}

\* the configuration and the window do not take part in a function-level run
IdleSystem ==
    /\ xml_path = [exists |-> FALSE, objects |-> <<>>]
    /\ regions = {}
    /\ input_dir = <<>>
    /\ output_dir = {}
    /\ clock = 0
    /\ next_file = 1
    /\ threads = <<>>
    /\ process_thread = 0
    /\ watching = FALSE
    /\ timer_active = FALSE
    /\ dir_signal = FALSE
    /\ finished_signals = <<>>
    /\ process_btn = TRUE
    /\ log_text = ""
    /\ dedup = [pc |-> "idle", unique_rows |-> <<>>]
    /\ ocr_data = <<>> /\ main_brand_code = <<>>

sysvars == <<cfgvars, fsvars, guivars, dedup, ocrvars>>

\* ---- variant expansion
InitExpand ==
    /\ part_number \in PartNumbers
    /\ pns_to_add = <<>>
    /\ stage = "input"
    /\ brand_codes = <<>> /\ brand_part_text = <<>>
    /\ part_number_pairs = <<>> /\ new_records = <<>> /\ store_log = <<>>
    /\ output_csv = NoFile
    /\ brand_mapping = <<>>
    /\ IdleSystem

ExpandStep ==
    /\ stage = "input"
    /\ pns_to_add' = Expand(part_number)
    /\ stage' = "expanded"
    /\ UNCHANGED <<part_number, brand_codes, brand_part_text,
                   part_number_pairs, new_records, store_log, output_csv,
                   sysvars>>

NextExpand == ExpandStep

SpecExpand == InitExpand /\ [][NextExpand]_vars

\* ---- extraction and record building
\* the single-value fields and the file name of a function-level run
RunFields == <<<<"M">>, <<>>, <<"E">>>>
RunSource == <<"a">>
RunMapping == (<<"Z">> :> <<"U">>)

InitPipeline ==
    /\ brand_codes \in UNION {[1..n -> BrandLines] : n \in 0..MaxBrandLines}
    /\ brand_part_text \in TokenStrings(TextTokens, MaxTokens)
    /\ part_number_pairs = <<>>
    /\ new_records = <<>>
    /\ stage = "input"
    /\ part_number = <<>> /\ pns_to_add = <<>> /\ store_log = <<>>
    /\ output_csv = NoFile
    /\ brand_mapping = RunMapping
    /\ IdleSystem

ExtractStep ==
    /\ stage = "input"
    /\ part_number_pairs' = extract_part_numbers(brand_codes, brand_part_text)
    /\ stage' = "extracted"
    /\ UNCHANGED <<part_number, pns_to_add, brand_codes, brand_part_text,
                   new_records, store_log, output_csv, sysvars>>

RecordsStep ==
    /\ stage = "extracted"
    /\ new_records' = BuildRecords(RunFields, part_number_pairs, brand_mapping,
                                   RunSource)
    /\ stage' = "built"
    /\ UNCHANGED <<part_number, pns_to_add, brand_codes, brand_part_text,
                   part_number_pairs, store_log, output_csv, sysvars>>

NextPipeline == ExtractStep \/ RecordsStep

SpecPipeline == InitPipeline /\ [][NextPipeline]_vars

(***************************************************************************)
(* OCRProcessor.__init__: the configuration, lines 35-84.                  *)
(***************************************************************************)
\* The five regions of refToPartnum.xml, in the order of the file:
\* main brand code, convert code, english name, brand code,
\* brand code and part number.
R_MAIN == "main_brand_code"
R_CONVERT == "convert_code"
R_ENGLISH == "english_name"
R_BRAND == "brand_code"
R_BRAND_PART == "brand_code_and_part"

XmlObject(name, wellformed) == [name |-> name, wellformed |-> wellformed]

\* parse_xml_regions: the names read before the first exception
RECURSIVE ParseObjects(_, _)
ParseObjects(objects, parsed) ==
    IF objects = <<>> \/ ~Head(objects).wellformed THEN parsed
    ELSE ParseObjects(Tail(objects), parsed \cup {Head(objects).name})

\* ET.parse raises at line 54 when there is no file
parse_xml_regions(xml) ==
    IF ~xml.exists THEN {} ELSE ParseObjects(xml.objects, {})

\* the file at xml_path: its object elements, or no file
XmlFile(objects) == [exists |-> TRUE, objects |-> objects]
XmlMissing == [exists |-> FALSE, objects |-> <<>>]

XmlComplete == <<XmlObject(R_MAIN, TRUE), XmlObject(R_CONVERT, TRUE),
                 XmlObject(R_ENGLISH, TRUE), XmlObject(R_BRAND, TRUE),
                 XmlObject(R_BRAND_PART, TRUE)>>

\* the region-definition resources the program is started with
XmlResources == {XmlFile(XmlComplete)}

\* a file whose fourth object lacks a coordinate: the brand regions and the
\* main brand code are read before int() raises at lines 60-63
XmlMalformed == <<XmlObject(R_BRAND, TRUE), XmlObject(R_BRAND_PART, TRUE),
                  XmlObject(R_MAIN, TRUE), XmlObject(R_CONVERT, FALSE),
                  XmlObject(R_ENGLISH, TRUE)>>

\* no file at xml_path, or a malformed one
XmlFaulty == {XmlMissing, XmlFile(XmlMalformed)}

\* load_brand_mapping: strip and upper both columns, skip rows with an empty
\* brand code, a later row replaces an earlier one; a missing file (None)
\* gives the empty mapping
RECURSIVE LoadRows(_, _)
LoadRows(rows, mapping) ==
    IF rows = <<>> THEN mapping
    ELSE LET brand_code == Upper(Strip(Head(rows)[1]))
             universal_brand == Upper(Strip(Head(rows)[2]))
         IN  LoadRows(Tail(rows),
                 IF brand_code # <<>>
                 THEN [b \in DOMAIN mapping \cup {brand_code} |->
                          IF b = brand_code THEN universal_brand
                          ELSE mapping[b]]
                 ELSE mapping)

load_brand_mapping(rows) == IF rows = None THEN <<>> ELSE LoadRows(rows, <<>>)

\* the brand-mapping resources the program is started with
BrandResources == {<<<<<<" ","z">>, <<"u">>>>, <<<<>>, <<"x">>>>>>}

(***************************************************************************)
(* The file system: get_pending_images, save_to_csv, move_to_ok_folder.    *)
(***************************************************************************)
\* str.lower
LowerChar(c) ==
    IF c \in Range(Uppers)
    THEN Lowers[CHOOSE i \in DOMAIN Uppers : Uppers[i] = c]
    ELSE c
Lower(s) == [i \in DOMAIN s |-> LowerChar(s[i])]

\* the file names an external writer uses, in sorted order
FileName(stem, suffix) == [stem |-> stem, suffix |-> suffix]
FileNames == <<FileName(<<"a">>, <<".","P","N","G">>),
               FileName(<<"n">>, <<".","t","x","t">>)>>

\* line 378
image_extensions == {<<".","p","n","g">>, <<".","j","p","g">>,
                     <<".","j","p","e","g">>, <<".","b","m","p">>,
                     <<".","g","i","f">>, <<".","t","i","f","f">>}

\* every file name of the model, in the order sorted() gives
SortedNames == <<FileName(<<"a">>, <<".","P","N","G">>),
                 FileName(<<"b">>, <<".","j","p","g">>),
                 FileName(<<"n">>, <<".","t","x","t">>)>>

\* input_dir.iterdir(), sorted: the names under which dir holds a file
Entries(dir) ==
    SelectSeq(SortedNames, LAMBDA n : n \in DOMAIN dir /\ dir[n] # 0)

\* get_pending_images without the suffix test
get_pending_images_any(dir) == Entries(dir)

\* get_pending_images: the files of the input directory with an image
\* suffix, sorted
get_pending_images(dir) ==
    SelectSeq(Entries(dir), LAMBDA n : Lower(n.suffix) \in image_extensions)

\* image_path.name
PathName(n) == n.stem \o n.suffix

\* line 359: the header row (one short field stands for each column title)
HEADER == <<<<"H","1">>, <<"H","2">>, <<"H","3">>, <<"H","4">>,
            <<"H","5">>, <<"H","6">>, <<"H","7">>>>

\* the rows save_to_csv is about to write: the header if the file does not
\* exist, then the records
LinesToWrite(file, records) ==
    (IF file = NoFile THEN <<HEADER>> ELSE <<>>) \o records

\* save_to_csv where the header is written on every call
save_to_csv_always_header(file, records, k) ==
    (IF file = NoFile THEN <<>> ELSE file)
        \o WriteRows(SubSeq(<<HEADER>> \o records, 1, k))

\* save_to_csv(records) on the file, when k rows reach the file before the
\* call returns or raises: k = -1 when open() raises, k < number of rows
\* when a write raises (the with statement closes the file, which flushes
\* what was written), all of them when the call returns.
save_to_csv(file, records, k) ==
    IF k = -1 THEN file
    ELSE (IF file = NoFile THEN <<>> ELSE file)
         \o WriteRows(SubSeq(LinesToWrite(file, records), 1, k))

SaveRaised(file, records, k) == k < Len(LinesToWrite(file, records))

SaveOutcomes(file, records) == -1 .. Len(LinesToWrite(file, records))

\* the stamp of an archived name that carries no timestamp (line 365)
NoStamp == -1

\* the name under which move_to_ok_folder archives a file (lines 365-372)
ArchiveName(out, n, now) ==
    LET dest_path == [stem |-> n.stem, stamp |-> NoStamp, suffix |-> n.suffix]
    IN  IF dest_path \in DOMAIN out
        THEN [dest_path EXCEPT !.stamp = now]
        ELSE dest_path

PutFile(out, dest, file) ==
    [d \in DOMAIN out \cup {dest} |-> IF d = dest THEN file ELSE out[d]]

\* move_to_ok_folder with shutil.copy in place of shutil.move
copy_to_ok_folder(inp, out, n, now, outcome) ==
    IF inp[n] = 0 \/ outcome = "raised"
    THEN [inp |-> inp, out |-> out, raised |-> TRUE]
    ELSE [inp |-> inp, out |-> PutFile(out, ArchiveName(out, n, now), inp[n]),
          raised |-> FALSE]

\* move_to_ok_folder(image_path), lines 363-374.  Both directories lie
\* under base_dir (lines 40-41), where shutil.move is a rename: the file is
\* moved, replacing a file of the destination name ("moved"), or the call
\* raises with nothing done ("raised").
move_to_ok_folder(inp, out, n, now, outcome) ==
    IF inp[n] = 0 \/ outcome = "raised"
    THEN [inp |-> inp, out |-> out, raised |-> TRUE]
    ELSE [inp |-> [inp EXCEPT ![n] = 0],
          out |-> PutFile(out, ArchiveName(out, n, now), inp[n]),
          raised |-> FALSE]

MoveOutcomes == {"moved", "raised"}

(***************************************************************************)
(* MainWindow.deduplicate_csv, lines 597-645.                              *)
(***************************************************************************)
\* line 626 with one column fewer
DedupKeyFive(row) == SubSeq(row, 1, 5)

\* line 626: key = tuple(row[:6])
DedupKey(row) == SubSeq(row, 1, 6)

\* lines 621-629: keep the first row of each key, drop rows under 6 fields
RECURSIVE UniqueRows(_, _, _)
UniqueRows(rows, seen, unique_rows) ==
    IF rows = <<>> THEN unique_rows
    ELSE LET row == Head(rows)
         IN  IF Len(row) >= 6 /\ DedupKey(row) \notin seen
             THEN UniqueRows(Tail(rows), seen \cup {DedupKey(row)},
                             Append(unique_rows, row))
             ELSE UniqueRows(Tail(rows), seen, unique_rows)

\* lines 607-614: header = next(reader, None); the header is kept if it is
\* a non-empty row; every later row is kept
RowsRead(file) ==
    LET all == ReadRows(file)
    IN  IF all = <<>> THEN <<>>
        ELSE (IF all[1] # <<>> THEN <<all[1]>> ELSE <<>>) \o Tail(all)

\* lines 599-635: what deduplicate_csv decides to write, None when it
\* returns without rewriting
RowsToRewrite(file) ==
    IF file = NoFile THEN None
    ELSE LET rows == RowsRead(file)
         IN  IF Len(rows) <= 1 THEN None
             ELSE LET unique_rows == UniqueRows(Tail(rows), {}, <<rows[1]>>)
                  IN  IF Len(rows) - Len(unique_rows) = 0 THEN None
                      ELSE unique_rows

Idle == [pc |-> "idle", unique_rows |-> <<>>]

\* deduplicate_csv up to the point where the file has been read
DedupRead ==
    /\ dedup.pc = "idle"
    /\ LET unique_rows == RowsToRewrite(output_csv)
       IN  dedup' = IF unique_rows = None THEN Idle
                    ELSE [pc |-> "rewrite", unique_rows |-> unique_rows]
    /\ UNCHANGED output_csv

\* lines 637-640: open(csv_path, 'w') and writerows(unique_rows)
DedupRewrite ==
    /\ dedup.pc = "rewrite"
    /\ output_csv' = WriteRows(dedup.unique_rows)
    /\ dedup' = Idle

(***************************************************************************)
(* The store alone: save_to_csv and deduplicate_csv applied to one batch   *)
(* of records with pairwise distinct keys, from an empty destination.      *)
(***************************************************************************)
MaxBatch == 2
MaxStoreOps == 3

\* the records batches are made of
RecordPool ==
    {<<<<"M">>, <<>>, <<"E", ",">>, <<"U">>, <<"Z">>, pn, <<"a">>>> :
        pn \in {<<"0","0","1","2">>, <<"1","2">>}}
    \cup {<<<<"M","\"">>, <<>>, <<>>, <<"Y">>, <<"Y">>, <<"A","\n","1">>, <<"a">>>>,
          <<<<>>, <<>>, <<>>, <<>>, <<>>, <<>>, <<>>>>}

Batches ==
    {b \in UNION {[1..n -> RecordPool] : n \in 0..MaxBatch} :
        \A i, j \in DOMAIN b : i # j => Key6(b[i]) # Key6(b[j])}

InitStore ==
    /\ new_records \in Batches
    /\ output_csv = NoFile
    /\ store_log = <<>>
    /\ stage = "store"
    /\ part_number = <<>> /\ pns_to_add = <<>>
    /\ brand_codes = <<>> /\ brand_part_text = <<>>
    /\ part_number_pairs = <<>>
    /\ brand_mapping = <<>>
    /\ IdleSystem

storeidle == <<part_number, pns_to_add, brand_codes, brand_part_text,
               part_number_pairs, new_records, stage, cfgvars, fsvars,
               guivars, ocrvars>>

\* RecordStore.append: save_to_csv(new_records)
StoreAppend ==
    /\ dedup.pc = "idle"
    /\ Len(store_log) < MaxStoreOps
    /\ \E k \in SaveOutcomes(output_csv, new_records) :
          /\ output_csv' = save_to_csv(output_csv, new_records, k)
          /\ store_log' = Append(store_log,
                 IF SaveRaised(output_csv, new_records, k)
                 THEN "append_raised" ELSE "append")
    /\ UNCHANGED <<storeidle, dedup>>

\* RecordStore.compact: deduplicate_csv, reading
StoreCompactRead ==
    /\ Len(store_log) < MaxStoreOps
    /\ DedupRead
    /\ store_log' = IF dedup'.pc = "idle" THEN Append(store_log, "compact")
                    ELSE store_log
    /\ UNCHANGED storeidle

\* RecordStore.compact: deduplicate_csv, rewriting
StoreCompactRewrite ==
    /\ DedupRewrite
    /\ store_log' = Append(store_log, "compact")
    /\ UNCHANGED storeidle

NextStore == StoreAppend \/ StoreCompactRead \/ StoreCompactRewrite

SpecStore == InitStore /\ [][NextStore]_vars

(***************************************************************************)
(* The OCR service as process_image sees it (lines 232-260): what          *)
(* call_ocr_api returns for each region of the image.                      *)
(***************************************************************************)
Label(main, convert, english, brand, text) ==
    [main |-> main, convert |-> convert, english |-> english,
     brand |-> brand, text |-> text]

\* what the service may recognise on an image: a label of a mapped brand
\* with the same part twice, a label of an unmapped brand, nothing at all
Labels ==
    {Label(<<<<"m", " ">>>>, <<>>, <<<<"E", ",">>, <<"x">>>>, <<<<"Z">>>>,
           <<"z","A","B","1","2","\n","Z"," ","a","b","1","2">>),
     Label(<<>>, <<>>, <<>>, <<<<"Y">>>>, <<"Y"," ","A","B","1","2">>),
     Label(<<>>, <<>>, <<>>, <<>>, <<>>)}

\* ocr_results.get(name, []): the lines of a region, [] when the region is
\* not configured
RegionLines(rs, name, lines) == IF name \in rs THEN lines ELSE <<>>

\* lines 253-260: the first line of the region, stripped and upper-cased
SingleValue(texts) == IF texts # <<>> THEN Upper(Strip(texts[1])) ELSE <<>>

\* lines 232-331: the records process_image builds for an image on which
\* the service recognises label
ImageFields(rs, label) ==
    <<SingleValue(RegionLines(rs, R_MAIN, label.main)),
      SingleValue(RegionLines(rs, R_CONVERT, label.convert)),
      SingleValue(RegionLines(rs, R_ENGLISH, label.english))>>

ImagePairs(rs, label) ==
    extract_part_numbers(RegionLines(rs, R_BRAND, label.brand),
                         IF R_BRAND_PART \in rs THEN label.text ELSE <<>>)

(***************************************************************************)
(* call_ocr_api in lines mode (return_text=False), lines 146-162, and the  *)
(* single-value field process_image takes from its result.                 *)
(***************************************************************************)
\* an item of result['data']: its text and the y of the first corner of
\* its box
OcrItem(text, y) == [text |-> text, y |-> y]

\* texts.sort(key=lambda x: x[0]): a stable sort on y
RECURSIVE InsertByY(_, _)
InsertByY(sorted, item) ==
    IF sorted = <<>> THEN <<item>>
    ELSE IF Head(sorted).y <= item.y
         THEN <<Head(sorted)>> \o InsertByY(Tail(sorted), item)
         ELSE <<item>> \o sorted

RECURSIVE SortByY(_)
SortByY(items) ==
    IF items = <<>> THEN <<>>
    ELSE InsertByY(SortByY(SubSeq(items, 1, Len(items) - 1)),
                   items[Len(items)])

\* lines 152-162: strip every text, sort on y, drop the empty texts
call_ocr_api(data) ==
    LET texts == [k \in DOMAIN data |->
                     OcrItem(Strip(data[k].text), data[k].y)]
        kept  == SelectSeq(SortByY(texts), LAMBDA t : t.text # <<>>)
    IN  [k \in DOMAIN kept |-> kept[k].text]

MaxFragments == 3
MaxY == 1

\* the items an OCR response is made of
OcrItems == {OcrItem(text, y) : text \in {<<"A">>, <<" ","b">>, <<" ">>},
                                y \in 0 .. MaxY}

InitOcr ==
    /\ ocr_data \in UNION {[1..n -> OcrItems] : n \in 0..MaxFragments}
    /\ main_brand_code = <<>>
    /\ stage = "input"
    /\ part_number = <<>> /\ pns_to_add = <<>>
    /\ brand_codes = <<>> /\ brand_part_text = <<>>
    /\ part_number_pairs = <<>> /\ new_records = <<>> /\ store_log = <<>>
    /\ output_csv = NoFile
    /\ xml_path = XmlFile(XmlComplete)
    /\ regions = parse_xml_regions(xml_path)
    /\ brand_mapping = <<>>
    /\ input_dir = <<>>
    /\ output_dir = {}
    /\ clock = 0
    /\ next_file = 1
    /\ threads = <<>>
    /\ process_thread = 0
    /\ watching = FALSE
    /\ timer_active = FALSE
    /\ dir_signal = FALSE
    /\ finished_signals = <<>>
    /\ process_btn = TRUE
    /\ log_text = ""
    /\ dedup = Idle

\* lines 249-258: the region of the main brand code is recognised in lines
\* mode and the field is taken from the result
OcrStep ==
    /\ stage = "input"
    /\ main_brand_code' =
          SingleValue(RegionLines(regions, R_MAIN, call_ocr_api(ocr_data)))
    /\ stage' = "recognised"
    /\ UNCHANGED <<part_number, pns_to_add, brand_codes, brand_part_text,
                   part_number_pairs, new_records, store_log, ocr_data,
                   output_csv, cfgvars, fsvars, guivars, dedup>>

NextOcr == OcrStep

SpecOcr == InitOcr /\ [][NextOcr]_vars

(***************************************************************************)
(* ProcessorThread, lines 389-419.                                         *)
(***************************************************************************)
MaxBatches == 2
MaxFiles == 1
MaxClock == 0

NoResult == [success |-> FALSE, count |-> 0]

\* ProcessorThread(processor, images), started
NewThread(images) ==
    [images |-> images, idx |-> 1, pc |-> "loop", running |-> TRUE,
     total_records |-> 0, file |-> 0, pairs |-> <<>>, new_records |-> <<>>,
     ret |-> NoResult]

\* QThread.isRunning
IsRunning(t) == t.pc # "finished"

CurrentImage(t) == t.images[t.idx]

\* lines 403-405 without the test of self._running
LoopContinuesAfterStop(t) == t.idx <= Len(t.images)

\* lines 403-405: the loop has an image left and stop() was not called
LoopContinues(t) == t.idx <= Len(t.images) /\ t.running

\* lines 408-412 with = in place of +=
TotalOfLast(t) == IF t.ret.success THEN t.ret.count ELSE t.total_records

\* lines 408-412: total_records += count when the image succeeded
TotalAfter(t) ==
    IF t.ret.success THEN t.total_records + t.ret.count ELSE t.total_records

\* lines 403-408 and 228-331: the loop takes the next image and
\* process_image opens it, recognises its regions and builds its records;
\* an exception before save_to_csv (Image.open, crop) returns
\* (False, ..., 0)
WorkerBegin(i) ==
    LET t == threads[i]
        n == CurrentImage(t)
    IN  /\ i \in DOMAIN threads
        /\ t.pc = "loop" /\ LoopContinues(t)
        /\ \E opened \in (IF input_dir[n] # 0 THEN BOOLEAN ELSE {FALSE}) :
              IF ~opened
              THEN threads' = [threads EXCEPT ![i].pc = "returned",
                                             ![i].file = input_dir[n],
                                             ![i].ret = NoResult]
              ELSE \E label \in Labels :
                     LET pairs == ImagePairs(regions, label)
                         recs == BuildRecords(ImageFields(regions, label),
                                     pairs, brand_mapping, PathName(n))
                     IN  threads' = [threads EXCEPT
                             ![i].pc = IF recs # <<>> THEN "persist"
                                       ELSE "archive",
                             ![i].file = input_dir[n],
                             ![i].pairs = pairs,
                             ![i].new_records = recs]
        /\ UNCHANGED <<fvars, cfgvars, fsvars, output_csv, process_thread,
                       watching, timer_active, dir_signal, finished_signals,
                       process_btn, log_text, dedup>>

\* lines 333-335 and 347-348: save_to_csv(new_records); an exception
\* returns (False, ..., 0)
WorkerPersist(i) ==
    LET t == threads[i]
    IN  /\ i \in DOMAIN threads
        /\ t.pc = "persist"
        /\ \E k \in SaveOutcomes(output_csv, t.new_records) :
              /\ output_csv' = save_to_csv(output_csv, t.new_records, k)
              /\ threads' =
                    IF SaveRaised(output_csv, t.new_records, k)
                    THEN [threads EXCEPT ![i].pc = "returned",
                                         ![i].ret = NoResult]
                    ELSE [threads EXCEPT ![i].pc = "archive"]
        /\ UNCHANGED <<fvars, cfgvars, fsvars, process_thread, watching,
                       timer_active, dir_signal, finished_signals,
                       process_btn, log_text, dedup>>

\* the values datetime.now() may return at line 369: the clock is read only
\* when the plain name is taken, and never runs backwards
Timestamps(out, n) ==
    IF ArchiveName(out, n, clock).stamp = NoStamp THEN {clock}
    ELSE clock .. MaxClock

\* lines 337-348: move_to_ok_folder(image_path), then the return value.
\* The watcher signals a change of the watched directory.
WorkerArchive(i) ==
    LET t == threads[i]
    IN  /\ i \in DOMAIN threads
        /\ t.pc = "archive"
        /\ \E outcome \in MoveOutcomes,
              now \in Timestamps(output_dir, CurrentImage(t)) :
              LET m == move_to_ok_folder(input_dir, output_dir,
                                         CurrentImage(t), now, outcome)
              IN  /\ input_dir' = m.inp
                  /\ output_dir' = m.out
                  /\ clock' = now
                  /\ dir_signal' = (dir_signal
                                    \/ (watching /\ m.inp # input_dir))
                  /\ threads' = [threads EXCEPT
                        ![i].pc = "returned",
                        ![i].ret = IF m.raised THEN NoResult
                                   ELSE [success |-> TRUE,
                                         count |-> Len(t.new_records)]]
        /\ UNCHANGED <<fvars, cfgvars, next_file, output_csv,
                       process_thread, watching, timer_active,
                       finished_signals, process_btn, log_text, dedup>>

\* lines 408-414: run() takes the result of process_image
WorkerReport(i) ==
    LET t == threads[i]
    IN  /\ i \in DOMAIN threads
        /\ t.pc = "returned"
        /\ threads' = [threads EXCEPT
              ![i].pc = "loop",
              ![i].idx = t.idx + 1,
              ![i].total_records = TotalAfter(t),
              ![i].file = 0, ![i].pairs = <<>>, ![i].new_records = <<>>,
              ![i].ret = NoResult]
        /\ UNCHANGED <<fvars, cfgvars, fsvars, output_csv, process_thread,
                       watching, timer_active, dir_signal, finished_signals,
                       process_btn, log_text, dedup>>

\* lines 403-405 and 416: the loop ends (no image left, or stop() was
\* called) and finished_all is emitted
WorkerEmit(i) ==
    LET t == threads[i]
    IN  /\ i \in DOMAIN threads
        /\ t.pc = "loop" /\ ~LoopContinues(t)
        /\ finished_signals' = Append(finished_signals, t.total_records)
        /\ threads' = [threads EXCEPT ![i].pc = "emitted"]
        /\ UNCHANGED <<fvars, cfgvars, fsvars, output_csv, process_thread,
                       watching, timer_active, dir_signal, process_btn,
                       log_text,
                       dedup>>

\* what is left of a thread once run() has returned: nothing reads its
\* fields again
Finished == [images |-> <<>>, idx |-> 1, pc |-> "finished", running |-> TRUE,
             total_records |-> 0, file |-> 0, pairs |-> <<>>,
             new_records |-> <<>>, ret |-> NoResult]

\* run() returns: the thread is no longer running
WorkerExit(i) ==
    /\ i \in DOMAIN threads
    /\ threads[i].pc = "emitted"
    /\ threads' = [threads EXCEPT ![i] = Finished]
    /\ UNCHANGED <<fvars, cfgvars, fsvars, output_csv, process_thread,
                   watching, timer_active, dir_signal, finished_signals,
                   process_btn, log_text, dedup>>

(***************************************************************************)
(* MainWindow: the handlers, which run one at a time on the GUI thread.    *)
(***************************************************************************)
\* line 719 without the isRunning() test
BusyNever(pt, ths) == FALSE

\* line 719: self.process_thread and self.process_thread.isRunning()
Busy(pt, ths) == pt # 0 /\ IsRunning(ths[pt])

\* process_pending_images, lines 717-739, as a relation on the thread list,
\* self.process_thread, the process button and the log
process_pending_images ==
    IF Busy(process_thread, threads)
    THEN /\ log_text' = "already running"
         /\ UNCHANGED <<threads, process_thread, process_btn>>
    ELSE IF get_pending_images(input_dir) = <<>>
    THEN /\ log_text' = "no pending image"
         /\ UNCHANGED <<threads, process_thread, process_btn>>
    ELSE /\ Len(threads) < MaxBatches
         /\ log_text' = "started"
         /\ threads' = Append(threads,
                              NewThread(get_pending_images(input_dir)))
         /\ process_thread' = Len(threads) + 1
         /\ process_btn' = FALSE

GuiIdle == dedup.pc = "idle"

\* process_btn.clicked (line 498)
ClickProcess ==
    /\ GuiIdle /\ process_btn
    /\ process_pending_images
    /\ UNCHANGED <<fvars, cfgvars, fsvars, output_csv, watching,
                   timer_active, dir_signal, finished_signals, dedup>>

\* watch_btn.clicked while not watching: start_watching, lines 666-682
StartWatching ==
    /\ GuiIdle /\ ~watching
    /\ watching' = TRUE
    /\ process_pending_images
    /\ UNCHANGED <<fvars, cfgvars, fsvars, output_csv, timer_active,
                   dir_signal, finished_signals, dedup>>

\* watch_btn.clicked while watching: stop_watching, lines 684-691
StopWatching ==
    /\ GuiIdle /\ watching
    /\ watching' = FALSE
    /\ UNCHANGED <<fvars, cfgvars, fsvars, output_csv, threads,
                   process_thread, timer_active, dir_signal,
                   finished_signals, process_btn, log_text, dedup>>

\* on_directory_changed, lines 711-715: the timer is (re)started
OnDirectoryChanged ==
    /\ GuiIdle /\ dir_signal
    /\ dir_signal' = FALSE
    /\ timer_active' = TRUE
    /\ UNCHANGED <<fvars, cfgvars, fsvars, output_csv, threads,
                   process_thread, watching, finished_signals, process_btn,
                   log_text,
                   dedup>>

\* process_timer.timeout (line 452): the single-shot timer expires
TimerExpires ==
    /\ GuiIdle /\ timer_active
    /\ timer_active' = FALSE
    /\ process_pending_images
    /\ UNCHANGED <<fvars, cfgvars, fsvars, output_csv, watching, dir_signal,
                   finished_signals, dedup>>

\* stop_btn.clicked: stop_all, lines 693-709
StopAll ==
    /\ GuiIdle
    /\ watching' = FALSE
    /\ timer_active' = FALSE
    /\ threads' = IF Busy(process_thread, threads)
                  THEN [threads EXCEPT ![process_thread].running = FALSE]
                  ELSE threads
    /\ UNCHANGED <<fvars, cfgvars, fsvars, output_csv, process_thread,
                   dir_signal, finished_signals, process_btn, log_text, dedup>>

\* on_process_finished, lines 741-745: a finished_all signal is delivered
OnProcessFinished ==
    /\ GuiIdle /\ finished_signals # <<>>
    /\ finished_signals' = Tail(finished_signals)
    /\ process_btn' = TRUE
    /\ UNCHANGED <<fvars, cfgvars, fsvars, output_csv, threads,
                   process_thread, watching, timer_active, dir_signal,
                   log_text, dedup>>

\* dedup_btn.clicked (lines 533-534): deduplicate_csv reads the file
DeduplicateCsv ==
    /\ DedupRead
    /\ UNCHANGED <<fvars, cfgvars, fsvars, guivars>>

\* deduplicate_csv rewrites the file
DeduplicateRewrite ==
    /\ DedupRewrite
    /\ UNCHANGED <<fvars, cfgvars, fsvars, guivars>>

(***************************************************************************)
(* The environment: files appear in the input directory.                   *)
(***************************************************************************)
\* an external writer puts a new file under a free name
AddImage(n) ==
    /\ input_dir[n] = 0 /\ next_file <= MaxFiles + 1
    /\ input_dir' = [input_dir EXCEPT ![n] = next_file]
    /\ next_file' = next_file + 1
    /\ dir_signal' = (dir_signal \/ watching)
    /\ UNCHANGED <<fvars, cfgvars, output_dir, clock, output_csv, threads,
                   process_thread, watching, timer_active, finished_signals,
                   process_btn, log_text, dedup>>

(***************************************************************************)
(* The program.                                                            *)
(***************************************************************************)
\* the state after OCRProcessor and MainWindow are constructed; the input
\* directory holds one file that is not an image
Init ==
    /\ xml_path \in XmlResources
    /\ regions = parse_xml_regions(xml_path)
    /\ \E rows \in BrandResources : brand_mapping = load_brand_mapping(rows)
    /\ input_dir = [n \in Range(FileNames) |->
                        IF Lower(n.suffix) \in image_extensions THEN 0 ELSE 1]
    /\ output_dir = <<>>
    /\ output_csv = NoFile
    /\ clock = 0
    /\ next_file = 2
    /\ threads = <<>>
    /\ process_thread = 0
    /\ watching = FALSE
    /\ timer_active = FALSE
    /\ dir_signal = FALSE
    /\ finished_signals = <<>>
    /\ process_btn = TRUE
    /\ log_text = ""
    /\ dedup = Idle
    /\ part_number = <<>> /\ pns_to_add = <<>>
    /\ brand_codes = <<>> /\ brand_part_text = <<>>
    /\ part_number_pairs = <<>> /\ new_records = <<>>
    /\ stage = "system" /\ store_log = <<>>
    /\ ocr_data = <<>> /\ main_brand_code = <<>>

\* the threads that can exist
ThreadIds == 1 .. MaxBatches

Worker ==
    \E i \in ThreadIds :
        \/ WorkerBegin(i)
        \/ WorkerPersist(i)
        \/ WorkerArchive(i)
        \/ WorkerReport(i)
        \/ WorkerEmit(i)
        \/ WorkerExit(i)

Gui ==
    \/ ClickProcess
    \/ StartWatching
    \/ StopWatching
    \/ OnDirectoryChanged
    \/ TimerExpires
    \/ StopAll
    \/ OnProcessFinished
    \/ DeduplicateCsv
    \/ DeduplicateRewrite

Environment == \E n \in Range(FileNames) : AddImage(n)

Next == Worker \/ Gui \/ Environment

Spec == Init /\ [][Next]_vars

(***************************************************************************)
(* One batch: the process button is clicked once on a directory that holds *)
(* two images, with an output table that does not exist yet.  The worker   *)
(* thread is scheduled fairly: every call it makes returns or raises       *)
(* (requests.post has a timeout, line 140).                                *)
(***************************************************************************)
\* the images of the batch
BatchNames == SubSeq(SortedNames, 1, 2)

\* the file that lies under a name of the batch when the program starts
InitialFile(n) == CHOOSE k \in DOMAIN BatchNames : BatchNames[k] = n

InitBatch ==
    /\ xml_path \in XmlResources \cup XmlFaulty
    /\ regions = parse_xml_regions(xml_path)
    /\ \E rows \in BrandResources : brand_mapping = load_brand_mapping(rows)
    /\ input_dir = [n \in Range(BatchNames) |-> InitialFile(n)]
    /\ output_dir = <<>>
    /\ output_csv = NoFile
    /\ clock = 0
    /\ next_file = Len(BatchNames) + 1
    /\ threads = <<>>
    /\ process_thread = 0
    /\ watching = FALSE
    /\ timer_active = FALSE
    /\ dir_signal = FALSE
    /\ finished_signals = <<>>
    /\ process_btn = TRUE
    /\ log_text = ""
    /\ dedup = Idle
    /\ part_number = <<>> /\ pns_to_add = <<>>
    /\ brand_codes = <<>> /\ brand_part_text = <<>>
    /\ part_number_pairs = <<>> /\ new_records = <<>>
    /\ stage = "batch" /\ store_log = <<>>
    /\ ocr_data = <<>> /\ main_brand_code = <<>>

\* the one click on the process button
StartBatch ==
    /\ threads = <<>>
    /\ ClickProcess

NextBatch == StartBatch \/ StopAll \/ OnProcessFinished \/ Worker

SpecBatch == InitBatch /\ [][NextBatch]_vars /\ WF_vars(Worker)

(***************************************************************************)
(* The archive alone: files arrive in the input directory under the names  *)
(* of the batch and move_to_ok_folder is called on them, as process_image  *)
(* does for every image that was read and saved.                           *)
(***************************************************************************)
MaxArchived == 4
MaxArchiveClock == 1

InitArchive ==
    /\ input_dir = [n \in Range(BatchNames) |-> 0]
    /\ output_dir = <<>>
    /\ clock = 0
    /\ next_file = 1
    /\ xml_path = XmlMissing /\ regions = {} /\ brand_mapping = <<>>
    /\ output_csv = NoFile
    /\ threads = <<>>
    /\ process_thread = 0
    /\ watching = FALSE
    /\ timer_active = FALSE
    /\ dir_signal = FALSE
    /\ finished_signals = <<>>
    /\ process_btn = TRUE
    /\ log_text = ""
    /\ dedup = Idle
    /\ part_number = <<>> /\ pns_to_add = <<>>
    /\ brand_codes = <<>> /\ brand_part_text = <<>>
    /\ part_number_pairs = <<>> /\ new_records = <<>>
    /\ stage = "archive" /\ store_log = <<>>
    /\ ocr_data = <<>> /\ main_brand_code = <<>>

archiveidle == <<fvars, cfgvars, output_csv, guivars, dedup>>

\* an external writer puts a new file under a free name
ArchivePut(n) ==
    /\ input_dir[n] = 0 /\ next_file <= MaxArchived
    /\ input_dir' = [input_dir EXCEPT ![n] = next_file]
    /\ next_file' = next_file + 1
    /\ UNCHANGED <<output_dir, clock, archiveidle>>

\* the values datetime.now() may return at line 369
ArchiveTimes(n) ==
    IF ArchiveName(output_dir, n, clock).stamp = NoStamp THEN {clock}
    ELSE clock .. MaxArchiveClock

\* move_to_ok_folder(image_path) on a file of the input directory
ArchiveMove(n) ==
    /\ input_dir[n] # 0
    /\ \E outcome \in MoveOutcomes, now \in ArchiveTimes(n) :
          LET m == move_to_ok_folder(input_dir, output_dir, n, now, outcome)
          IN  /\ input_dir' = m.inp
              /\ output_dir' = m.out
              /\ clock' = now
    /\ UNCHANGED <<next_file, archiveidle>>

NextArchive ==
    \E n \in Range(BatchNames) : ArchivePut(n) \/ ArchiveMove(n)

SpecArchive == InitArchive /\ [][NextArchive]_vars

(***************************************************************************)
(* The claims.                                                             *)
(***************************************************************************)
\* trim + uppercase normalization of a brand-code list, as the claim words it
NormalizedBrands(bcs) == {Upper(Strip(bcs[i])) : i \in DOMAIN bcs}

\* C1: extract(B, T) returns no pair whose partNumber is a member of B after
\* trim + uppercase, and no pair whose partNumber has fewer than 4 characters.
C1_ExtractRejectsBrandsAndShort ==
    stage \in {"extracted", "built"} =>
        \A i \in DOMAIN part_number_pairs :
            /\ part_number_pairs[i][2] \notin NormalizedBrands(brand_codes)
            /\ Len(part_number_pairs[i][2]) >= 4

\* C1 witness: extraction ran on a text where the run after one brand code
\* is itself a brand code of 4 characters, which was left out of the result.
C1_Witness ==
    /\ stage = "extracted"
    /\ \E b \in NormalizedBrands(brand_codes), c \in NormalizedBrands(brand_codes) :
           /\ Len(c) >= 4
           /\ c \in {Upper(m) : m \in Range(FindAll(b, NormalizeText(brand_part_text), 1))}
           /\ \A i \in DOMAIN part_number_pairs : part_number_pairs[i][2] # c

\* C2: the variant list built for P has P as its first element and holds no
\* two equal variants.
C2_ExpandFirstAndDistinct ==
    stage = "expanded" =>
        /\ Len(pns_to_add) >= 1
        /\ pns_to_add[1] = part_number
        /\ \A i, j \in DOMAIN pns_to_add : i # j => pns_to_add[i] # pns_to_add[j]

\* C2 witness: an expansion in which all four variants were produced.
C2_Witness == stage = "expanded" /\ Len(pns_to_add) = 4

PN_0AB_12 == <<"0","A","B","-","1","2">>

\* C3 as stated: expand("0AB-12") strips no leading zero, so neither "AB-12"
\* nor "AB12" is among the variants.
C3_NoZeroStripBeforeLetter ==
    (stage = "expanded" /\ part_number = PN_0AB_12) =>
        /\ <<"A","B","-","1","2">> \notin Range(pns_to_add)
        /\ <<"A","B","1","2">> \notin Range(pns_to_add)

\* C3 as amended: expand("0AB-12") strips the leading zero whatever follows
\* it; the variants are "0AB-12", "AB-12", "0AB12", "AB12", in that order.
C3_ZeroStripBeforeLetter ==
    (stage = "expanded" /\ part_number = PN_0AB_12) =>
        pns_to_add = <<PN_0AB_12, <<"A","B","-","1","2">>,
                       <<"0","A","B","1","2">>, <<"A","B","1","2">>>>

\* C3 witness: "0AB-12" has been expanded.
C3_Witness == stage = "expanded" /\ part_number = PN_0AB_12

\* C4: the batch of records built within one process_image call never holds
\* two records with the same first-6-field key.
C4_BatchKeysDistinct ==
    stage = "built" =>
        \A i, j \in DOMAIN new_records :
            i # j => Key6(new_records[i]) # Key6(new_records[j])

\* C4 witness: a batch was built from two pairs of the same brand code
\* whose variant lists overlap.
C4_Witness ==
    /\ stage = "built"
    /\ new_records # <<>>
    /\ \E i, j \in DOMAIN part_number_pairs :
           /\ i < j
           /\ part_number_pairs[i][1] = part_number_pairs[j][1]
           /\ Range(Expand(part_number_pairs[i][2]))
                \cap Range(Expand(part_number_pairs[j][2])) # {}

\* C5: from an empty destination, after the same N records (pairwise
\* distinct on the first 6 fields) were appended twice and compact() was then
\* run, the table holds the header row followed by exactly those N rows, in
\* the order of their first occurrence.
C5_AppendTwiceThenCompact ==
    (store_log = <<"append", "append", "compact">> /\ dedup.pc = "idle") =>
        /\ output_csv # NoFile
        /\ ReadRows(output_csv) = <<HEADER>> \o new_records

\* C5 witness: that run, with a batch of two records, one of them with
\* fields the csv writer has to quote.
C5_Witness ==
    /\ store_log = <<"append", "append", "compact">>
    /\ dedup.pc = "idle"
    /\ Len(new_records) = 2
    /\ \E i \in DOMAIN new_records, j \in 1..7 : NeedsQuote(new_records[i][j])

\* the data rows a reader of the output table sees
PersistedRows ==
    IF output_csv = NoFile THEN {}
    ELSE {r \in Range(ReadRows(output_csv)) : r # HEADER}

\* the universal brand the claim requires for a brand code
ClaimedBrand(brand_code) ==
    IF brand_code \in DOMAIN brand_mapping THEN brand_mapping[brand_code]
    ELSE brand_code

\* C6: every record persisted to the output table has universalBrand equal
\* to BrandMapping[brandCode] when brandCode is a key of the mapping and
\* equal to brandCode itself when it is not; every extracted pair, mapped or
\* not, has a record under its brand code and part number in the batch that
\* is persisted.
C6_BrandConsistentNeverDropped ==
    /\ \A r \in PersistedRows : Len(r) = 7 /\ r[4] = ClaimedBrand(r[5])
    /\ \A i \in DOMAIN threads :
          \A k \in DOMAIN threads[i].pairs :
              \E j \in DOMAIN threads[i].new_records :
                  LET pair == threads[i].pairs[k]
                      rec  == threads[i].new_records[j]
                  IN  /\ rec[5] = pair[1] /\ rec[6] = pair[2]
                      /\ rec[4] = ClaimedBrand(pair[1])

\* the table holds a record of a mapped brand and one of an unmapped brand
C6_Witness ==
    /\ \E r \in PersistedRows : r[5] \in DOMAIN brand_mapping /\ r[4] # r[5]
    /\ \E r \in PersistedRows : r[5] \notin DOMAIN brand_mapping

\* the rows of the table that are rows of the batch
BatchRowsIn(file) ==
    IF file = NoFile THEN <<>>
    ELSE SelectSeq(ReadRows(file), LAMBDA row : row \in Range(new_records))

\* C7: append is all-or-nothing: after an append that raised, a read of the
\* destination sees none of the batch's rows; after one that returned, it
\* sees all of them.
C7_AppendAllOrNothing ==
    /\ store_log = <<"append_raised">> => BatchRowsIn(output_csv) = <<>>
    /\ store_log = <<"append">> => BatchRowsIn(output_csv) = new_records

\* C8: when process_image has returned, the image is in the archive and no
\* longer in the input directory if and only if success is true; when
\* success is false the image is still in the input directory, the same
\* file, and the next scan of the directory lists it.
C8_ArchivedIffSuccess ==
    \A i \in DOMAIN threads :
        LET t == threads[i]
            n == CurrentImage(t)
        IN  t.pc = "returned" =>
              /\ t.file # 0
              /\ t.ret.success <=> (t.file \in Range(output_dir)
                                    /\ input_dir[n] # t.file)
              /\ ~t.ret.success =>
                    /\ input_dir[n] = t.file
                    /\ n \in Range(get_pending_images(input_dir))

\* process_image has returned failure after the table was written: the
\* image is where it was and a scan lists it
C8_Witness ==
    \E i \in DOMAIN threads :
        /\ threads[i].pc = "returned" /\ ~threads[i].ret.success
        /\ threads[i].new_records # <<>>
        /\ PersistedRows # {}
        /\ CurrentImage(threads[i])
              \in Range(get_pending_images(input_dir))

\* process_image has returned success and the image is archived
C8_WitnessSuccess ==
    \E i \in DOMAIN threads :
        /\ threads[i].pc = "returned" /\ threads[i].ret.success
        /\ threads[i].file \in Range(output_dir)

\* a step of one of the three handlers that request a batch
ProcessRequest == ClickProcess \/ StartWatching \/ TimerExpires

\* C9: at most one worker thread is running at any time, and a process
\* request (button click, watch start, timer expiry) made while a batch is
\* running starts no worker, leaves self.process_thread alone and leaves
\* nothing behind that would run it later: no timer is started, no signal
\* is queued; it is reported in the log.
C9_OneBatchInFlight ==
    /\ [](Cardinality({i \in DOMAIN threads : IsRunning(threads[i])}) <= 1)
    /\ [][(ProcessRequest /\ Busy(process_thread, threads)) =>
             /\ threads' = threads
             /\ process_thread' = process_thread
             /\ timer_active' => timer_active
             /\ dir_signal' = dir_signal
             /\ finished_signals' = finished_signals
             /\ log_text' = "already running"]_vars

\* a request was rejected while the batch it met is still running
C9_Witness ==
    /\ log_text = "already running"
    /\ Busy(process_thread, threads)
    /\ threads[process_thread].pc \in {"persist", "archive", "returned"}

\* C10: there is no reachable state in which deduplicate_csv has read the
\* output table and not yet rewritten it while the worker thread of a batch
\* is running.
C10_NoCompactionDuringBatch ==
    ~(/\ dedup.pc = "rewrite"
      /\ \E i \in DOMAIN threads : IsRunning(threads[i]))

\* the worker thread of the batch, once the batch is started
Started == threads # <<>>
BatchThread == threads[1]

\* the image of the batch under name n was archived
Succeeded(n) == InitialFile(n) \in Range(output_dir)

\* the rows of the output table that come from image n
RowsFrom(file, n) ==
    IF file = NoFile THEN <<>>
    ELSE SelectSeq(ReadRows(file),
                   LAMBDA row : Len(row) = 7 /\ row[7] = PathName(n))

\* the number of rows of the output table that come from archived images
RECURSIVE RowsOfSucceeded(_)
RowsOfSucceeded(names) ==
    IF names = <<>> THEN 0
    ELSE (IF Succeeded(Head(names))
          THEN Len(RowsFrom(output_csv, Head(names))) ELSE 0)
         + RowsOfSucceeded(Tail(names))

\* the finished_all signals emitted so far: those waiting for delivery and
\* the one on_process_finished has taken (it enables the process button)
ReportsEmitted ==
    Len(finished_signals) + (IF Started /\ process_btn THEN 1 ELSE 0)

\* C11: every started batch eventually completes and emits its report
\* exactly once, whatever images fail: the loop goes on after a failed
\* image (when the batch ends without a stop, every image was taken), each
\* image is taken once (the index only moves forward, one image at a time,
\* after process_image has returned), and the total reported is the number
\* of records added by the images that succeeded.
C11_BatchCompletesAndReports ==
    /\ Started ~> (Started /\ BatchThread.pc = "finished")
    /\ [](Started =>
            /\ ReportsEmitted =
                 (IF BatchThread.pc \in {"emitted", "finished"} THEN 1 ELSE 0)
            /\ (BatchThread.pc = "emitted" /\ BatchThread.running) =>
                 BatchThread.idx = Len(BatchThread.images) + 1
            /\ BatchThread.pc \in {"loop", "emitted"} =>
                 BatchThread.total_records = RowsOfSucceeded(BatchNames)
            /\ finished_signals # <<>> =>
                 finished_signals = <<RowsOfSucceeded(BatchNames)>>)
    /\ [][(Started /\ threads'[1].pc # "finished") =>
             /\ threads'[1].images = BatchThread.images
             /\ \/ threads'[1].idx = BatchThread.idx
                \/ /\ threads'[1].idx = BatchThread.idx + 1
                   /\ BatchThread.pc = "returned"]_vars

\* the batch has ended: its first image failed after its rows were written,
\* its second image succeeded and added records
C11_Witness ==
    /\ Started /\ BatchThread.pc = "emitted" /\ BatchThread.running
    /\ Len(BatchThread.images) = 2
    /\ ~Succeeded(BatchNames[1]) /\ RowsFrom(output_csv, BatchNames[1]) # <<>>
    /\ Succeeded(BatchNames[2]) /\ BatchThread.total_records > 0

\* the names of all the objects of the region-definition file
RegionsOfResource ==
    {xml_path.objects[k].name : k \in DOMAIN xml_path.objects}

\* C12: the program never runs with a partial or empty region set: in every
\* state in which process_image is at work on an image, the
\* region-definition file exists and every region of it is loaded.
C12_CompleteRegionsOrNoRun ==
    \A i \in DOMAIN threads :
        threads[i].pc \in {"persist", "archive", "returned"} =>
            xml_path.exists /\ regions = RegionsOfResource

\* stop() was called on the batch and run() has not returned
Stopped == Started /\ BatchThread.pc # "finished" /\ ~BatchThread.running

\* C13: once stop is signalled on a running batch, the image at work runs
\* to completion (the stop changes nothing but the flag, and the worker
\* goes on to the return of process_image), no image is started afterwards,
\* and the batch still emits its report and ends.
C13_StopBetweenImages ==
    /\ [][(Started /\ BatchThread.running /\ ~threads'[1].running) =>
             /\ threads' = [threads EXCEPT ![1].running = FALSE]
             /\ UNCHANGED <<input_dir, output_dir, output_csv,
                            finished_signals>>]_vars
    /\ [][Stopped =>
             ~(/\ BatchThread.pc = "loop"
               /\ threads'[1].pc \in {"persist", "archive", "returned"})]_vars
    /\ (Stopped /\ BatchThread.pc \in {"persist", "archive"})
          ~> (Started /\ BatchThread.pc = "returned")
    /\ Stopped ~> (Started /\ BatchThread.pc = "finished"
                           /\ ReportsEmitted = 1)

\* the batch was stopped while its first image was at work: the image has
\* been written and archived, the second image is still to come
C13_Witness ==
    /\ Stopped /\ BatchThread.pc = "returned"
    /\ BatchThread.ret.success /\ BatchThread.ret.count > 0
    /\ BatchThread.idx = 1 /\ Len(BatchThread.images) = 2

\* the batch was stopped, has ended, and its second image was never taken
C13_WitnessEnded ==
    /\ Stopped /\ BatchThread.pc = "emitted"
    /\ BatchThread.idx = 2 /\ Len(BatchThread.images) = 2
    /\ Succeeded(BatchNames[1]) /\ input_dir[BatchNames[2]] # 0

\* C16: when process_image has returned, the count it returns is the number
\* of rows the call appended to the output table; in particular a call that
\* returns failure (count 0) has left no row of its image in the table.
C16_CountIsRowsAppended ==
    (Started /\ BatchThread.pc = "returned") =>
        BatchThread.ret.count
            = Len(RowsFrom(output_csv, CurrentImage(BatchThread)))

\* the files that were created and are not in the input directory any more:
\* only move_to_ok_folder takes a file out of it
Archived == {f \in 1 .. next_file - 1 : f \notin Range(input_dir)}

\* C14: archiving never overwrites a file of the archive: every file that
\* was archived is still there after each move, also when several files of
\* the same name are archived within the same second.
C14_ArchiveNeverOverwrites ==
    \A f \in Archived : f \in Range(output_dir)

\* the concatenation of a list of texts
RECURSIVE Concat(_)
Concat(texts) == IF texts = <<>> THEN <<>> ELSE Head(texts) \o Concat(Tail(texts))

\* C15: a single-value field taken from a lines-mode result of several
\* fragments is the concatenation of all the fragments in ascending vertical
\* order (ties in detection order), trimmed and upper-cased like every
\* single-value field.
C15_FieldIsAllFragments ==
    stage = "recognised" =>
        main_brand_code = Upper(Strip(Concat(call_ocr_api(ocr_data))))
====
